---- MODULE Spec2Model ----
(***************************************************************************)
(* Model of scripts/parse_musicxml.py: the MusicXML -> timeline converter. *)
(*                                                                         *)
(* parse_musicxml is one sequential function.  Its loops are unrolled into *)
(* one action per loop iteration:                                          *)
(*   BeginMeasure, ProcessAttributes, ProcessBarline, ProcessRest,         *)
(*   ProcessNote   (the walk over the measures, lines 110-279)             *)
(*   CombineTies   (one iteration of the tie loop, lines 285-310)          *)
(*   MergeAndSort  (lines 312-314)                                         *)
(*                                                                         *)
(* Representation.  An optional XML child is a sequence of length <= 1     *)
(* (<<>> is "find() returned None").  Beats are Python floats; every       *)
(* divisions value of the model is a power of two, so every beat is a      *)
(* dyadic rational, float arithmetic on it is exact, and a beat b is held  *)
(* as the integer b * Scale.  Rounded durations (round(x, 2)) are held in  *)
(* hundredths of a beat.  A measure's number attribute is its position in  *)
(* the document (single part, numbered 1, 2, ...).                         *)
(***************************************************************************)
EXTENDS Integers, Sequences, FiniteSets, TLC

VARIABLES
    doc,                  \* the parsed document: a sequence of measures
    pc, mi, k,            \* position: phase, measure index, index in the phase's loop
    divisions, fifths, beats, beat_type,
    current_key_sharps, current_key_flats,
    current_beat, note_id, rest_id,
    measure_beats, measure_accidentals,
    notes, rests, lyrics_list, repeats, voltas, time_sig_changes,
    final_notes, skip_indices, all_items,
    note_src,             \* history: note_src[n] = <<measure index, element index,
                          \* cursor when emitted>> of raw note n
    beat_arg, beat_ret    \* argument and result of a direct snap_to_half_beat call

vars == <<doc, pc, mi, k, divisions, fifths, beats, beat_type,
          current_key_sharps, current_key_flats, current_beat, note_id, rest_id,
          measure_beats, measure_accidentals, notes, rests, lyrics_list, repeats,
          voltas, time_sig_changes, final_notes, skip_indices, all_items,
          note_src, beat_arg, beat_ret>>

-----------------------------------------------------------------------------
(* Optional values *)

None == <<>>

Some(v) == <<v>>

-----------------------------------------------------------------------------
(* Input alphabet *)

\* divisions values a document may state (the default, 2, and a finer one)
DivisionValues == {2, 4}

\* beat b is represented as b * Scale; Scale is twice the finest divisions
Scale == 2 * (CHOOSE d \in DivisionValues : \A e \in DivisionValues : d % e = 0)

Half == Scale \div 2

Measure(attrs, bars, elems) ==
    [attributes |-> attrs, barlines |-> bars, elems |-> elems]

Attributes(div, fif, time) == [divisions |-> div, fifths |-> fif, time |-> time]

Time(b, bt) == [beats |-> b, beat_type |-> bt]

Barline(loc, rep, ending) == [location |-> loc, repeat |-> rep, ending |-> ending]

Ending(type, number) == [type |-> type, number |-> number]

Pitch(step, alter, octave) == [step |-> step, alter |-> alter, octave |-> octave]

Lyric(text, syllabic) == [text |-> text, syllabic |-> syllabic]

\* a note element; lyrics is the list of its lyric children
RestElem(dur) ==
    [rest |-> TRUE, chord |-> FALSE, dur |-> dur, pitch |-> None,
     tie_start |-> FALSE, tie_stop |-> FALSE, lyrics |-> <<>>]

NoteElem(pitch, dur, chord, tstart, tstop, lyrics) ==
    [rest |-> FALSE, chord |-> chord, dur |-> dur, pitch |-> pitch,
     tie_start |-> tstart, tie_stop |-> tstop, lyrics |-> lyrics]

SeqsUpTo(S, n) == UNION {[1..m -> S] : m \in 0..n}

SeqsOfLen(S, lo, hi) == UNION {[1..m -> S] : m \in lo..hi}

-----------------------------------------------------------------------------
(* snap_to_half_beat, lines 20-26: floor(beat * 2 + 0.5) / 2.               *)
(* With beat = n / Scale: floor((4n + Scale) / (2 Scale)) half beats.       *)

\* faulty variant: the + 0.5 is missing (rounds down)
snap_floor(beat) == Half * ((2 * beat) \div Scale)

snap_to_half_beat(beat) == Half * ((4 * beat + Scale) \div (2 * Scale))

\* Python round(x, 2) of x = n / Scale, in hundredths: nearest, exact ties to even
Round2(n) ==
    LET q == (n * 100) \div Scale
        r == (n * 100) % Scale
    IN  IF 2 * r < Scale THEN q
        ELSE IF 2 * r > Scale THEN q + 1
        ELSE IF q % 2 = 0 THEN q ELSE q + 1

-----------------------------------------------------------------------------
(* Initial divisions / key / time lookup, lines 33-55: the FIRST matching   *)
(* element anywhere in the document (root.findall('.//...') then break).    *)

RECURSIVE AllAttributes(_)
AllAttributes(d) ==
    IF d = <<>> THEN <<>> ELSE Head(d).attributes \o AllAttributes(Tail(d))

InitialDivisions(d) ==
    LET found == SelectSeq(AllAttributes(d), LAMBDA a : a.divisions # None)
    IN  IF found = <<>> THEN 2 ELSE found[1].divisions[1]

InitialFifths(d) ==
    LET found == SelectSeq(AllAttributes(d), LAMBDA a : a.fifths # None)
    IN  IF found = <<>> THEN 0 ELSE found[1].fifths[1]

InitialBeats(d) ==
    LET found == SelectSeq(AllAttributes(d), LAMBDA a : a.time # None)
    IN  IF found = <<>> \/ found[1].time[1].beats = None
        THEN 4 ELSE found[1].time[1].beats[1]

InitialBeatType(d) ==
    LET found == SelectSeq(AllAttributes(d), LAMBDA a : a.time # None)
    IN  IF found = <<>> \/ found[1].time[1].beat_type = None
        THEN 4 ELSE found[1].time[1].beat_type[1]

-----------------------------------------------------------------------------
(* Key signature tables, lines 76-87 *)

sharps_order == <<"F", "C", "G", "D", "A", "E", "B">>

flats_order == <<"B", "E", "A", "D", "G", "C", "F">>

\* the set of the first n entries of a list (Python slice order[:n], n >= 0)
Prefix(order, n) == {order[x] : x \in {y \in 1..Len(order) : y <= n}}

KeySharps(fifths_val) == IF fifths_val > 0 THEN Prefix(sharps_order, fifths_val) ELSE {}

KeyFlats(fifths_val) == IF fifths_val < 0 THEN Prefix(flats_order, -fifths_val) ELSE {}

-----------------------------------------------------------------------------
(* Pitch spelling, lines 211-248 *)

\* the suffix appended for an alteration; any other value appends nothing
AlterSuffix(alt) ==
    CASE alt = 2 -> "##"
      [] alt = 1 -> "#"
      [] alt = -1 -> "b"
      [] alt = -2 -> "bb"
      [] OTHER -> ""

\* the accidental part of pitch_str for a note of letter step
Accidental(step, alter, overrides, sharps, flats) ==
    IF alter # None THEN AlterSuffix(alter[1])
    ELSE IF step \in DOMAIN overrides THEN AlterSuffix(overrides[step])
    ELSE IF step \in sharps THEN "#"
    ELSE IF step \in flats THEN "b"
    ELSE ""

\* faulty variant: a natural (alter 0) is not recorded
TrackAccidental_nonzero(step, alter, overrides) ==
    IF alter # None /\ alter[1] # 0
    THEN [s \in DOMAIN overrides \cup {step} |->
             IF s = step THEN alter[1] ELSE overrides[s]]
    ELSE overrides

\* measure_accidentals after the note (line 227)
TrackAccidental(step, alter, overrides) ==
    IF alter # None
    THEN [s \in DOMAIN overrides \cup {step} |->
             IF s = step THEN alter[1] ELSE overrides[s]]
    ELSE overrides

PitchStr(p, overrides, sharps, flats) ==
    p.step \o Accidental(p.step, p.alter, overrides, sharps, flats) \o ToString(p.octave)

-----------------------------------------------------------------------------
(* Beat accounting *)

\* int(dur.text) / divisions, lines 183 and 250
DurBeats(dur, div) == (dur * Scale) \div div

\* faulty variant: a chord member is placed at the cursor
NoteBeat_cursor(is_chord, ns, cur) == cur

\* line 253: the beat a note is placed at, before snapping
NoteBeat(is_chord, ns, cur) ==
    IF ~is_chord THEN cur
    ELSE IF ns # <<>> THEN ns[Len(ns)].absoluteBeat
    ELSE cur

\* faulty variant: a chord member advances the cursor too
CursorAfterNote_always(is_chord, cur, dur_beats) == cur + dur_beats

\* lines 278-279: the cursor after a note
CursorAfterNote(is_chord, cur, dur_beats) ==
    IF ~is_chord THEN cur + dur_beats ELSE cur

\* lines 160 and 173: the beat stored in a repeat marker or volta record
MarkerBeat(cur) == cur

\* faulty variant: every stated time signature counts as a change
TimeSigDiffers_always(new_b, new_bt, b, bt) == TRUE

\* lines 266-274: the lyric events of a note placed at note_beat; a lyric
\* without text, or with empty text, gives none
RECURSIVE LyricEvents(_, _)
LyricEvents(lyrics, note_beat) ==
    IF lyrics = <<>> THEN <<>>
    ELSE LET lyric == Head(lyrics)
         IN  (IF lyric.text # None /\ lyric.text[1] # ""
              THEN <<[text |-> lyric.text[1],
                      absoluteBeat |-> snap_to_half_beat(note_beat),
                      syllabic |-> lyric.syllabic]>>
              ELSE <<>>)
             \o LyricEvents(Tail(lyrics), note_beat)

\* line 141: does a stated time signature differ from the tracked one
TimeSigDiffers(new_b, new_bt, b, bt) == new_b # b \/ new_bt # bt

-----------------------------------------------------------------------------
(* Control flow of the nested loops of lines 110-279: the position reached  *)
(* from loop `phase` of measure m at index idx, skipping exhausted loops.   *)

RECURSIVE Goto(_, _, _, _)
Goto(d, m, phase, idx) ==
    CASE phase = "attributes" ->
            IF idx <= Len(d[m].attributes) THEN <<phase, m, idx>>
            ELSE Goto(d, m, "barline", 1)
      [] phase = "barline" ->
            IF idx <= Len(d[m].barlines) THEN <<phase, m, idx>>
            ELSE Goto(d, m, "elem", 1)
      [] phase = "elem" ->
            IF idx <= Len(d[m].elems) THEN <<phase, m, idx>>
            ELSE IF m < Len(d) THEN <<"measure", m + 1, 1>>
            ELSE <<"ties", m, 1>>

\* has_notes: the raw note list is non-empty after this step (an empty tie loop
\* is skipped)
Step(phase, idx, has_notes) ==
    LET to == Goto(doc, mi, phase, idx)
    IN  /\ pc' = (IF to[1] = "ties" /\ ~has_notes THEN "sort" ELSE to[1])
        /\ mi' = to[2]
        /\ k' = to[3]

-----------------------------------------------------------------------------
(* Tie consolidation, lines 297-307: the scan of one tie-start note i from  *)
(* index j; returns <<accumulated duration, indices consumed>>.             *)

\* line 301: note n is absorbed by the origin note
TieMatches(n, origin) == n.pitch = origin.pitch /\ n.tie_stop

\* faulty variant: the scan stops at the first tie-stop, whatever its flags
ChainEnds_first(n) == TRUE

\* line 305: the scan stops after absorbing n
ChainEnds(n) == ~n.tie_start

RECURSIVE TieScan(_, _, _, _, _)
TieScan(ns, i, j, acc, consumed) ==
    IF j > Len(ns) THEN <<acc, consumed>>
    ELSE IF TieMatches(ns[j], ns[i])
         THEN IF ChainEnds(ns[j])
              THEN <<acc + ns[j].duration, consumed \cup {j}>>
              ELSE TieScan(ns, i, j + 1, acc + ns[j].duration, consumed \cup {j})
         ELSE TieScan(ns, i, j + 1, acc, consumed)

-----------------------------------------------------------------------------
(* Merge and sort, lines 313-314: list.sort is stable; the key is           *)
(* (absoluteBeat, 0 for a note, 1 for a rest).                              *)

SortKey(x) == <<x.absoluteBeat, IF x.pitch # "REST" THEN 0 ELSE 1>>

KeyLess(a, b) == a[1] < b[1] \/ (a[1] = b[1] /\ a[2] < b[2])

\* insert x after every element whose key is not greater (keeps equal keys in order)
RECURSIVE InsertStable(_, _)
InsertStable(sorted, x) ==
    IF sorted = <<>> THEN <<x>>
    ELSE IF KeyLess(SortKey(x), SortKey(Head(sorted)))
         THEN <<x>> \o sorted
         ELSE <<Head(sorted)>> \o InsertStable(Tail(sorted), x)

RECURSIVE StableSort(_)
StableSort(items) ==
    IF items = <<>> THEN <<>>
    ELSE InsertStable(StableSort(SubSeq(items, 1, Len(items) - 1)), items[Len(items)])

\* faulty variant: the list is merged but not sorted
SortedItems_unsorted(items) == items

SortedItems(items) == StableSort(items)

-----------------------------------------------------------------------------
(* State after line 108, for a document d; phase and arg select a direct    *)
(* call of snap_to_half_beat instead of parse_musicxml.                     *)

InitState(d, phase, arg) ==
    /\ doc = d
    /\ pc = phase
    /\ mi = 1
    /\ k = 1
    /\ divisions = InitialDivisions(d)
    /\ fifths = InitialFifths(d)
    /\ beats = InitialBeats(d)
    /\ beat_type = InitialBeatType(d)
    /\ current_key_sharps = KeySharps(InitialFifths(d))
    /\ current_key_flats = KeyFlats(InitialFifths(d))
    /\ current_beat = 0
    /\ note_id = 1
    /\ rest_id = 1
    /\ measure_beats = <<>>
    /\ measure_accidentals = <<>>
    /\ notes = <<>>
    /\ rests = <<>>
    /\ lyrics_list = <<>>
    /\ repeats = <<>>
    /\ voltas = <<>>
    /\ time_sig_changes = <<>>
    /\ final_notes = <<>>
    /\ skip_indices = {}
    /\ all_items = <<>>
    /\ note_src = <<>>
    /\ beat_arg = arg
    /\ beat_ret = 0

InitWith(d) == InitState(d, "measure", 0)

-----------------------------------------------------------------------------
(* The measure walk, lines 110-279 *)

\* lines 110-113
BeginMeasure ==
    /\ pc = "measure"
    /\ measure_beats' = Append(measure_beats, current_beat)
    /\ measure_accidentals' = <<>>
    /\ Step("attributes", 1, notes # <<>>)
    /\ UNCHANGED <<doc, divisions, fifths, beats, beat_type, current_key_sharps,
                   current_key_flats, current_beat, note_id, rest_id, notes, rests,
                   lyrics_list, repeats, voltas, time_sig_changes, final_notes,
                   skip_indices, all_items, note_src, beat_arg, beat_ret>>

\* lines 116-148, one attributes element
ProcessAttributes ==
    /\ pc = "attributes"
    /\ LET attr == doc[mi].attributes[k]
           new_fifths == IF attr.fifths # None THEN attr.fifths[1] ELSE fifths
           complete == /\ attr.time # None
                       /\ attr.time[1].beats # None
                       /\ attr.time[1].beat_type # None
           changed == /\ complete
                      /\ TimeSigDiffers(attr.time[1].beats[1], attr.time[1].beat_type[1],
                                        beats, beat_type)
       IN  /\ divisions' = IF attr.divisions # None THEN attr.divisions[1] ELSE divisions
           /\ fifths' = new_fifths
           /\ current_key_sharps' =
                  IF new_fifths # fifths THEN KeySharps(new_fifths) ELSE current_key_sharps
           /\ current_key_flats' =
                  IF new_fifths # fifths THEN KeyFlats(new_fifths) ELSE current_key_flats
           /\ beats' = IF changed THEN attr.time[1].beats[1] ELSE beats
           /\ beat_type' = IF changed THEN attr.time[1].beat_type[1] ELSE beat_type
           /\ time_sig_changes' =
                  IF changed
                  THEN Append(time_sig_changes,
                              [measureNumber |-> mi,
                               numerator |-> attr.time[1].beats[1],
                               denominator |-> attr.time[1].beat_type[1]])
                  ELSE time_sig_changes
    /\ Step("attributes", k + 1, notes # <<>>)
    /\ UNCHANGED <<doc, current_beat, note_id, rest_id, measure_beats,
                   measure_accidentals, notes, rests, lyrics_list, repeats, voltas,
                   final_notes, skip_indices, all_items, note_src, beat_arg, beat_ret>>

\* lines 151-175, one barline element
ProcessBarline ==
    /\ pc = "barline"
    /\ LET barline == doc[mi].barlines[k]
       IN  /\ repeats' =
                  IF barline.repeat # None
                  THEN Append(repeats, [measure |-> mi,
                                        direction |-> barline.repeat[1],
                                        beat |-> MarkerBeat(current_beat),
                                        location |-> barline.location])
                  ELSE repeats
           /\ voltas' =
                  IF barline.ending # None
                  THEN Append(voltas, [measure |-> mi,
                                       type |-> barline.ending[1].type,
                                       number |-> barline.ending[1].number,
                                       beat |-> MarkerBeat(current_beat)])
                  ELSE voltas
    /\ Step("barline", k + 1, notes # <<>>)
    /\ UNCHANGED <<doc, divisions, fifths, beats, beat_type, current_key_sharps,
                   current_key_flats, current_beat, note_id, rest_id, measure_beats,
                   measure_accidentals, notes, rests, lyrics_list, time_sig_changes,
                   final_notes, skip_indices, all_items, note_src, beat_arg, beat_ret>>

\* lines 178-193, a note element with a rest child
ProcessRest ==
    /\ pc = "elem"
    /\ doc[mi].elems[k].rest
    /\ LET elem == doc[mi].elems[k]
           dur_beats == DurBeats(elem.dur[1], divisions)
       IN  IF elem.dur # None
           THEN /\ rests' = Append(rests, [id |-> "r" \o ToString(rest_id),
                                           pitch |-> "REST",
                                           duration |-> Round2(dur_beats),
                                           absoluteBeat |-> snap_to_half_beat(current_beat),
                                           measure |-> mi])
                /\ rest_id' = rest_id + 1
                /\ current_beat' = current_beat + dur_beats
           ELSE UNCHANGED <<rests, rest_id, current_beat>>
    /\ Step("elem", k + 1, notes # <<>>)
    /\ UNCHANGED <<doc, divisions, fifths, beats, beat_type, current_key_sharps,
                   current_key_flats, note_id, measure_beats, measure_accidentals,
                   notes, lyrics_list, repeats, voltas, time_sig_changes, final_notes,
                   skip_indices, all_items, note_src, beat_arg, beat_ret>>

\* lines 195-279, a note element without a rest child
ProcessNote ==
    /\ pc = "elem"
    /\ ~doc[mi].elems[k].rest
    /\ LET elem == doc[mi].elems[k]
           pitch == elem.pitch[1]
           dur_beats == DurBeats(elem.dur[1], divisions)
           note_beat == NoteBeat(elem.chord, notes, current_beat)
       IN  IF elem.pitch # None /\ elem.dur # None
           THEN /\ measure_accidentals' =
                       TrackAccidental(pitch.step, pitch.alter, measure_accidentals)
                /\ notes' = Append(notes,
                       [id |-> note_id,
                        pitch |-> PitchStr(pitch, measure_accidentals,
                                           current_key_sharps, current_key_flats),
                        duration |-> dur_beats,
                        absoluteBeat |-> snap_to_half_beat(note_beat),
                        measure |-> mi,
                        tie_start |-> elem.tie_start,
                        tie_stop |-> elem.tie_stop])
                /\ lyrics_list' = lyrics_list \o LyricEvents(elem.lyrics, note_beat)
                /\ note_id' = note_id + 1
                /\ current_beat' = CursorAfterNote(elem.chord, current_beat, dur_beats)
                /\ note_src' = Append(note_src, <<mi, k, current_beat>>)
           ELSE UNCHANGED <<measure_accidentals, notes, lyrics_list, note_id,
                            current_beat, note_src>>
    /\ Step("elem", k + 1,
            notes # <<>> \/ (doc[mi].elems[k].pitch # None /\ doc[mi].elems[k].dur # None))
    /\ UNCHANGED <<doc, divisions, fifths, beats, beat_type, current_key_sharps,
                   current_key_flats, rest_id, measure_beats, rests, repeats, voltas,
                   time_sig_changes, final_notes, skip_indices, all_items,
                   beat_arg, beat_ret>>

-----------------------------------------------------------------------------
(* Combine tied notes, lines 285-310: one iteration, for raw note k *)

CombineTies ==
    /\ pc = "ties"
    /\ LET note == notes[k]
           scan == IF note.tie_start
                   THEN TieScan(notes, k, k + 1, note.duration, {})
                   ELSE <<note.duration, {}>>
       IN  IF k \in skip_indices
           THEN UNCHANGED <<final_notes, skip_indices>>
           ELSE /\ final_notes' = Append(final_notes,
                       [id |-> note.id,
                        pitch |-> note.pitch,
                        duration |-> Round2(scan[1]),
                        absoluteBeat |-> note.absoluteBeat,
                        measure |-> note.measure])
                /\ skip_indices' = skip_indices \cup scan[2]
    /\ pc' = IF k < Len(notes) THEN "ties" ELSE "sort"
    /\ k' = k + 1
    /\ UNCHANGED <<doc, mi, divisions, fifths, beats, beat_type, current_key_sharps,
                   current_key_flats, current_beat, note_id, rest_id, measure_beats,
                   measure_accidentals, notes, rests, lyrics_list, repeats, voltas,
                   time_sig_changes, all_items, note_src, beat_arg, beat_ret>>

\* lines 312-314
MergeAndSort ==
    /\ pc = "sort"
    /\ all_items' = SortedItems(final_notes \o rests)
    /\ pc' = "done"
    /\ UNCHANGED <<doc, mi, k, divisions, fifths, beats, beat_type, current_key_sharps,
                   current_key_flats, current_beat, note_id, rest_id, measure_beats,
                   measure_accidentals, notes, rests, lyrics_list, repeats, voltas,
                   time_sig_changes, final_notes, skip_indices, note_src,
                   beat_arg, beat_ret>>

Next ==
    \/ BeginMeasure
    \/ ProcessAttributes
    \/ ProcessBarline
    \/ ProcessRest
    \/ ProcessNote
    \/ CombineTies
    \/ MergeAndSort

-----------------------------------------------------------------------------
(* Direct calls of snap_to_half_beat (lines 20-26, and main's line 490)     *)

CallSnap ==
    /\ pc = "snap"
    /\ beat_ret' = snap_to_half_beat(beat_arg)
    /\ pc' = "snapped"
    /\ UNCHANGED <<doc, mi, k, divisions, fifths, beats, beat_type, current_key_sharps,
                   current_key_flats, current_beat, note_id, rest_id, measure_beats,
                   measure_accidentals, notes, rests, lyrics_list, repeats, voltas,
                   time_sig_changes, final_notes, skip_indices, all_items, note_src,
                   beat_arg>>

\* snap applied to its own result
CallSnapAgain ==
    /\ pc = "snapped"
    /\ beat_ret' = snap_to_half_beat(beat_ret)
    /\ pc' = "resnapped"
    /\ UNCHANGED <<doc, mi, k, divisions, fifths, beats, beat_type, current_key_sharps,
                   current_key_flats, current_beat, note_id, rest_id, measure_beats,
                   measure_accidentals, notes, rests, lyrics_list, repeats, voltas,
                   time_sig_changes, final_notes, skip_indices, all_items, note_src,
                   beat_arg>>

NextSnap == CallSnap \/ CallSnapAgain

-----------------------------------------------------------------------------
(* Documents.  A document is built from a stream of tokens, one per XML     *)
(* element: "measure" opens the next measure, the others add a child to the *)
(* current measure.  Measure 1 is always present.                           *)

MeasureTok == <<"measure", Measure(<<>>, <<>>, <<>>)>>

AttrTok(a) == <<"attributes", a>>

BarTok(b) == <<"barline", b>>

ElemTok(e) == <<"elem", e>>

AddTok(d, tok) ==
    CASE tok[1] = "measure" -> Append(d, tok[2])
      [] tok[1] = "attributes" ->
            [d EXCEPT ![Len(d)].attributes = Append(@, tok[2])]
      [] tok[1] = "barline" ->
            [d EXCEPT ![Len(d)].barlines = Append(@, tok[2])]
      [] tok[1] = "elem" ->
            [d EXCEPT ![Len(d)].elems = Append(@, tok[2])]

\* the documents of at most n elements over a token set
RECURSIVE Docs(_, _)
Docs(tokens, n) ==
    IF n = 0 THEN {<<MeasureTok[2]>>}
    ELSE LET shorter == Docs(tokens, n - 1)
         IN  shorter \cup {AddTok(d, tok) : d \in shorter, tok \in tokens}

\* a plain note: pitched, unaltered, octave 4
Plain(step, dur, chord) ==
    NoteElem(Some(Pitch(step, None, 4)), Some(dur), chord, FALSE, FALSE, <<>>)

RepeatBarline == Barline("right", Some("backward"), Some(Ending("stop", "1")))

-----------------------------------------------------------------------------
(* Bounds: the number of XML elements of a document, per family; the range  *)
(* of beats snap_to_half_beat is called on directly.                        *)

MaxWalkDoc == 5

MaxTieDoc == 3

MaxKeyDoc == 4

MaxAttrDoc == 5

MaxSnapBeat == 40

-----------------------------------------------------------------------------
(* Spec: the beat cursor.  Rests, notes, chord members, skipped notes,      *)
(* lyrics, repeat/volta barlines, divisions 2 and 4.                        *)

WalkTokens ==
    {MeasureTok,
     AttrTok(Attributes(Some(4), None, None)),
     AttrTok(Attributes(Some(2), None, None)),
     BarTok(RepeatBarline),
     ElemTok(RestElem(Some(1))),
     \* a note with two lyric children, the second without text
     ElemTok(NoteElem(Some(Pitch("C", None, 4)), Some(1), FALSE, FALSE, FALSE,
                      <<Lyric(Some("la"), Some("single")), Lyric(None, None)>>)),
     ElemTok(Plain("D", 2, FALSE)),
     ElemTok(Plain("E", 1, TRUE)),
     \* a grace note (no duration) and an unpitched note: both are skipped
     ElemTok(NoteElem(Some(Pitch("G", None, 4)), None, FALSE, FALSE, FALSE, <<>>)),
     ElemTok(NoteElem(None, Some(1), TRUE, FALSE, FALSE, <<>>))}

Init == \E d \in Docs(WalkTokens, MaxWalkDoc) : InitWith(d)

Spec == Init /\ [][Next]_vars

-----------------------------------------------------------------------------
(* SpecTies: tie flags.  Two pitches, every combination of tie start/stop.  *)

TieTokens ==
    {AttrTok(Attributes(Some(2), None, None)),
     BarTok(RepeatBarline),
     ElemTok(RestElem(Some(1)))}
    \cup {ElemTok(NoteElem(Some(Pitch("A", None, 4)), Some(d), FALSE, ts, tp, <<>>)) :
            d \in {1, 2}, ts \in BOOLEAN, tp \in BOOLEAN}
    \cup {ElemTok(NoteElem(Some(Pitch("B", None, 4)), Some(1), FALSE, ts, tp, <<>>)) :
            ts \in BOOLEAN, tp \in BOOLEAN}

InitTies == \E d \in Docs(TieTokens, MaxTieDoc) : InitWith(d)

SpecTies == InitTies /\ [][Next]_vars

-----------------------------------------------------------------------------
(* SpecKeys: pitch spelling.  Keys of 2 sharps and 1 flat, letters F and B, *)
(* explicit alterations natural, sharp, double sharp and flat, and a        *)
(* durationless note carrying a sharp.                                      *)

KeyNote(step, alter) ==
    NoteElem(Some(Pitch(step, alter, 4)), Some(1), FALSE, FALSE, FALSE, <<>>)

KeyTokens ==
    {MeasureTok,
     AttrTok(Attributes(None, Some(2), None)),
     AttrTok(Attributes(None, Some(-1), None)),
     BarTok(RepeatBarline),
     ElemTok(RestElem(Some(1))),
     ElemTok(KeyNote("F", None)),
     ElemTok(KeyNote("F", Some(0))),
     ElemTok(KeyNote("F", Some(1))),
     ElemTok(KeyNote("F", Some(2))),
     \* a grace note (no duration) with a sharp: skipped, its sharp is not recorded
     ElemTok(NoteElem(Some(Pitch("F", Some(1), 4)), None, FALSE, FALSE, FALSE, <<>>)),
     ElemTok(KeyNote("B", None)),
     ElemTok(KeyNote("B", Some(-1)))}

InitKeys == \E d \in Docs(KeyTokens, MaxKeyDoc) : InitWith(d)

SpecKeys == InitKeys /\ [][Next]_vars

-----------------------------------------------------------------------------
(* SpecAttrs: attribute changes.  Time signatures 3/4, 4/4 and an           *)
(* incomplete one (beats only), divisions 4, a key of 1 sharp.              *)

AttrTokens ==
    {MeasureTok,
     AttrTok(Attributes(None, None, Some(Time(Some(3), Some(4))))),
     AttrTok(Attributes(None, None, Some(Time(Some(4), Some(4))))),
     AttrTok(Attributes(None, None, Some(Time(Some(2), None)))),
     AttrTok(Attributes(Some(4), None, None)),
     AttrTok(Attributes(None, Some(1), None)),
     BarTok(RepeatBarline),
     ElemTok(RestElem(Some(1))),
     ElemTok(Plain("F", 2, FALSE))}

InitAttrs == \E d \in Docs(AttrTokens, MaxAttrDoc) : InitWith(d)

SpecAttrs == InitAttrs /\ [][Next]_vars

-----------------------------------------------------------------------------
(* SpecSnap: snap_to_half_beat on every beat of a range, in steps of        *)
(* 1 / Scale, both signs.                                                   *)

InitSnap ==
    \E b \in (-MaxSnapBeat * Scale)..(MaxSnapBeat * Scale) : InitState(<<>>, "snap", b)

SpecSnap == InitSnap /\ [][NextSnap]_vars

-----------------------------------------------------------------------------
(* Claims *)

\* the walk over the measures is over
WalkDone == pc \in {"ties", "sort", "done"}

\* the tie loop has handled raw notes 1 .. TiesHandled
TiesHandled ==
    IF pc = "ties" THEN k - 1
    ELSE IF pc \in {"sort", "done"} THEN Len(notes)
    ELSE 0

RECURSIVE SumDurations(_, _)
SumDurations(ns, S) ==
    IF S = {} THEN 0
    ELSE LET j == CHOOSE x \in S : TRUE
         IN  ns[j].duration + SumDurations(ns, S \ {j})

RECURSIVE SumSeqDurations(_)
SumSeqDurations(ns) ==
    IF ns = <<>> THEN 0 ELSE Head(ns).duration + SumSeqDurations(Tail(ns))

\* x is within a quarter beat of the half-beat r, quarter-beat ties going up
NearestHalfUp(x, r) ==
    /\ r % Half = 0
    /\ 2 * r - Half <= 2 * x
    /\ 2 * x < 2 * r + Half

Chain(ns, i) ==
    {j \in (i + 1)..Len(ns) :
        /\ ns[j].pitch = ns[i].pitch
        /\ ns[j].tie_stop
        /\ \A l \in (i + 1)..(j - 1) :
              ~(ns[l].pitch = ns[i].pitch /\ ns[l].tie_stop /\ ~ns[l].tie_start)}

Emitted(i) == {f \in 1..Len(final_notes) : final_notes[f].id = notes[i].id}

(* C1: every raw tie-start note that was not itself consumed is emitted     *)
(* once, at its own beat, with its own duration plus the durations of the   *)
(* tie-stops of its chain (rounded to 2 decimals); consumed notes are not   *)
(* emitted.                                                                 *)
C1_TieChain ==
    \A i \in 1..TiesHandled :
        /\ (notes[i].tie_start /\ i \notin skip_indices) =>
              /\ Cardinality(Emitted(i)) = 1
              /\ \A f \in Emitted(i) :
                    /\ final_notes[f].duration =
                          Round2(notes[i].duration + SumDurations(notes, Chain(notes, i)))
                    /\ final_notes[f].absoluteBeat = notes[i].absoluteBeat
                    /\ final_notes[f].pitch = notes[i].pitch
        /\ i \in skip_indices => Emitted(i) = {}

\* A4(start, 1.0) -> A4(start+stop, 1.0) -> A4(stop, 0.5) became one A4 of 2.5
C1_Witness ==
    /\ pc = "done"
    /\ Len(notes) = 3
    /\ notes[1].tie_start /\ ~notes[1].tie_stop /\ notes[1].duration = Scale
    /\ notes[2].tie_start /\ notes[2].tie_stop /\ notes[2].duration = Scale
    /\ ~notes[3].tie_start /\ notes[3].tie_stop /\ notes[3].duration = Half
    /\ \A n \in 1..3 : notes[n].pitch = "A4"
    /\ Len(final_notes) = 1
    /\ final_notes[1].duration = 250
    /\ final_notes[1].absoluteBeat = 0

(* C10: every raw note is accounted for exactly once: the output has one    *)
(* note per raw note that was not consumed, and the output durations add up *)
(* to the raw durations.                                                    *)
C10_Conservation ==
    pc = "done" =>
        /\ Len(final_notes) = Len(notes) - Cardinality(skip_indices)
        /\ Scale * SumSeqDurations(final_notes) = 100 * SumSeqDurations(notes)

-----------------------------------------------------------------------------
(* Claims about the beat cursor *)

\* what element e adds to the cursor: its duration if it is a rest or a
\* non-chord pitched note, nothing if it is chord-flagged or skipped
Counted(e, div) ==
    IF e.dur = None THEN 0
    ELSE IF e.rest THEN (e.dur[1] * Scale) \div div
    ELSE IF e.pitch # None /\ ~e.chord THEN (e.dur[1] * Scale) \div div
    ELSE 0

RECURSIVE SumCounted(_, _, _)
SumCounted(elems, n, div) ==
    IF n = 0 THEN 0 ELSE Counted(elems[n], div) + SumCounted(elems, n - 1, div)

(* C2: the cursor minus the cursor at the measure's start is the sum of     *)
(* duration / divisions over the measure's rests and non-chord pitched      *)
(* notes processed so far; at the end of the measure, over all of them.     *)
C2_MeasureCursor ==
    /\ pc \in {"attributes", "barline"} => current_beat = measure_beats[mi]
    /\ pc = "elem" =>
          current_beat - measure_beats[mi] = SumCounted(doc[mi].elems, k - 1, divisions)
    /\ (pc = "measure" /\ mi > 1) =>
          current_beat - measure_beats[mi - 1] =
              SumCounted(doc[mi - 1].elems, Len(doc[mi - 1].elems), divisions)
    /\ WalkDone =>
          current_beat - measure_beats[Len(doc)] =
              SumCounted(doc[Len(doc)].elems, Len(doc[Len(doc)].elems), divisions)

\* measure 1 held a rest, a note and a chord member, and is over
C2_Witness ==
    /\ pc = "measure"
    /\ mi = 2
    /\ \E a, b, c \in 1..Len(doc[1].elems) :
          /\ doc[1].elems[a].rest
          /\ ~doc[1].elems[b].rest /\ ~doc[1].elems[b].chord /\ doc[1].elems[b].dur # None
          /\ ~doc[1].elems[c].rest /\ doc[1].elems[c].chord /\ doc[1].elems[c].pitch # None
    /\ current_beat > 0

\* the element raw note n came from
SrcElem(n) == doc[note_src[n][1]].elems[note_src[n][2]]

\* the first note of the chord raw note n belongs to: the latest note up to n
\* that is not chord-flagged (the very first note if there is none)
ChordHead(n) ==
    CHOOSE h \in 1..n :
        /\ h = 1 \/ ~SrcElem(h).chord
        /\ \A g \in (h + 1)..n : SrcElem(g).chord

C7_Members ==
    \A n \in 1..Len(notes) :
        SrcElem(n).chord => notes[n].absoluteBeat = notes[ChordHead(n)].absoluteBeat

C7_Step ==
    (pc = "elem" /\ ~doc[mi].elems[k].rest /\ doc[mi].elems[k].chord) =>
        /\ current_beat' = current_beat
        /\ (doc[mi].elems[k].pitch # None /\ doc[mi].elems[k].dur # None) =>
              /\ Len(notes') = Len(notes) + 1
              /\ notes'[Len(notes')].absoluteBeat =
                    IF notes # <<>> THEN notes[Len(notes)].absoluteBeat
                    ELSE snap_to_half_beat(current_beat)

(* C7: processing a chord-flagged note leaves the cursor alone and places   *)
(* the note at the beat of the most recently emitted note (the snapped      *)
(* cursor if there is none), so every chord member has the beat of the      *)
(* first note of its chord, whatever precedes it.                           *)
C7_Chord == []C7_Members /\ [][C7_Step]_vars

\* a chord member directly after a rest, placed before the cursor
C7_Witness ==
    \E n \in 2..Len(notes) :
        /\ SrcElem(n).chord
        /\ note_src[n][2] > 1
        /\ doc[note_src[n][1]].elems[note_src[n][2] - 1].rest
        /\ notes[n].absoluteBeat < snap_to_half_beat(note_src[n][3])
        /\ notes[n].absoluteBeat = notes[n - 1].absoluteBeat

IsRest(x) == x.pitch = "REST"

\* the events of a list that have the sort key of x, in list order
SameKey(items, x) ==
    SelectSeq(items, LAMBDA y : y.absoluteBeat = x.absoluteBeat /\ IsRest(y) = IsRest(x))

(* C4: the returned list is ordered by absoluteBeat, a note precedes a rest *)
(* of the same beat, and events equal on both keys keep the order they had  *)
(* in (consolidated notes, then rests).                                     *)
C4_Sorted ==
    pc = "done" =>
        /\ Len(all_items) = Len(final_notes) + Len(rests)
        /\ \A a, b \in 1..Len(all_items) :
              a < b =>
                 /\ all_items[a].absoluteBeat <= all_items[b].absoluteBeat
                 /\ all_items[a].absoluteBeat = all_items[b].absoluteBeat =>
                       ~(IsRest(all_items[a]) /\ ~IsRest(all_items[b]))
        /\ \A a \in 1..Len(all_items) :
              SameKey(all_items, all_items[a]) = SameKey(final_notes \o rests, all_items[a])

\* a note and a rest on the same beat, the note first, two notes sharing a beat
C4_Witness ==
    /\ pc = "done"
    /\ \E a, b \in 1..Len(all_items) :
          /\ a < b
          /\ ~IsRest(all_items[a]) /\ IsRest(all_items[b])
          /\ all_items[a].absoluteBeat = all_items[b].absoluteBeat
    /\ \E a, b \in 1..Len(all_items) :
          /\ a < b
          /\ ~IsRest(all_items[a]) /\ ~IsRest(all_items[b])
          /\ all_items[a].absoluteBeat = all_items[b].absoluteBeat

OnHalfBeat(b) == b % Half = 0

(* C5: every stored absolute beat is a multiple of 0.5: in note, rest and   *)
(* lyric events, and in repeat markers and volta records.                   *)
C5_AllSnapped ==
    /\ \A n \in 1..Len(notes) : OnHalfBeat(notes[n].absoluteBeat)
    /\ \A n \in 1..Len(rests) : OnHalfBeat(rests[n].absoluteBeat)
    /\ \A n \in 1..Len(lyrics_list) : OnHalfBeat(lyrics_list[n].absoluteBeat)
    /\ \A n \in 1..Len(all_items) : OnHalfBeat(all_items[n].absoluteBeat)
    /\ \A n \in 1..Len(repeats) : OnHalfBeat(repeats[n].beat)
    /\ \A n \in 1..Len(voltas) : OnHalfBeat(voltas[n].beat)

-----------------------------------------------------------------------------
(* Claims about pitch spelling *)

\* the measure whose notes were spelled under the current key signature
SpelledMeasure ==
    IF pc = "elem" THEN mi
    ELSE IF pc = "measure" THEN mi - 1
    ELSE IF WalkDone THEN Len(doc)
    ELSE 0

Letter(n) == SrcElem(n).pitch[1].step

Alter(n) == SrcElem(n).pitch[1].alter

\* the earlier emitted notes of n's measure and letter that carry an explicit
\* alteration
EarlierExplicit(n) ==
    {g \in 1..(n - 1) :
        /\ note_src[g][1] = note_src[n][1]
        /\ Letter(g) = Letter(n)
        /\ Alter(g) # None}

Rank(order, x) == CHOOSE r \in 1..Len(order) : order[r] = x

\* the mark the key signature alone gives a letter
KeyMark(letter, f) ==
    IF f > 0 /\ Rank(<<"F", "C", "G", "D", "A", "E", "B">>, letter) <= f THEN "#"
    ELSE IF f < 0 /\ Rank(<<"B", "E", "A", "D", "G", "C", "F">>, letter) <= -f THEN "b"
    ELSE ""

AlterMark(a) ==
    IF a = 2 THEN "##" ELSE IF a = 1 THEN "#" ELSE IF a = -1 THEN "b"
    ELSE IF a = -2 THEN "bb" ELSE ""

Spelled(n, mark) ==
    notes[n].pitch = Letter(n) \o mark \o ToString(SrcElem(n).pitch[1].octave)

\* the override table is empty when a measure's first element is reached, and an
\* unmarked note with no explicit alteration of its letter before it in the
\* measure is spelled from the key signature
C3_MeasureScoped ==
    /\ (pc \in {"attributes", "barline"} \/ (pc = "elem" /\ k = 1)) =>
          measure_accidentals = <<>>
    /\ \A n \in 1..Len(notes) :
          (note_src[n][1] = SpelledMeasure /\ Alter(n) = None /\ EarlierExplicit(n) = {}) =>
              Spelled(n, KeyMark(Letter(n), fifths))

(* C3 as stated: an unmarked note is spelled with the alteration of every   *)
(* earlier explicitly altered note of its letter in the measure; the table  *)
(* is empty at the next measure and the key signature applies again.        *)
C3_StickyAny ==
    /\ C3_MeasureScoped
    /\ \A n \in 1..Len(notes) :
          Alter(n) = None =>
              \A g \in EarlierExplicit(n) : Spelled(n, AlterMark(Alter(g)[1]))

(* C3 amended: an unmarked note is spelled with the alteration of the       *)
(* latest earlier explicitly altered note of its letter in the measure.     *)
C3_StickyLatest ==
    /\ C3_MeasureScoped
    /\ \A n \in 1..Len(notes) :
          (Alter(n) = None /\ EarlierExplicit(n) # {}) =>
              \E g \in EarlierExplicit(n) :
                  /\ \A h \in EarlierExplicit(n) : h <= g
                  /\ Spelled(n, AlterMark(Alter(g)[1]))

\* two sharps; F sharp, F natural, then a bare F in one measure: spelled F4
C3_Witness ==
    /\ fifths = 2
    /\ \E n \in 3..Len(notes) :
          /\ Alter(n) = None
          /\ notes[n].pitch = "F4"
          /\ {n - 2, n - 1} \subseteq EarlierExplicit(n)
          /\ Alter(n - 2) = Some(1)
          /\ Alter(n - 1) = Some(0)

-----------------------------------------------------------------------------
(* Claims about attribute changes *)

CompleteTime(a) ==
    a.time # None /\ a.time[1].beats # None /\ a.time[1].beat_type # None

\* the complete time signatures stated by the first n attributes elements of
\* measure m, as <<measure, beats, beat-type>>
TimesOf(d, m, n) ==
    LET stated == SelectSeq(SubSeq(d[m].attributes, 1, n), CompleteTime)
    IN  [x \in 1..Len(stated) |->
            <<m, stated[x].time[1].beats[1], stated[x].time[1].beat_type[1]>>]

RECURSIVE TimesUpTo(_, _)
TimesUpTo(d, m) ==
    IF m = 0 THEN <<>>
    ELSE TimesUpTo(d, m - 1) \o TimesOf(d, m, Len(d[m].attributes))

\* the complete time signatures processed so far
TimesSeen ==
    IF pc = "measure" THEN TimesUpTo(doc, mi - 1)
    ELSE IF pc = "attributes" THEN TimesUpTo(doc, mi - 1) \o TimesOf(doc, mi, k - 1)
    ELSE IF pc \in {"barline", "elem"} THEN TimesUpTo(doc, mi)
    ELSE TimesUpTo(doc, Len(doc))

\* the signature tracked before statement x of a list: the one stated just
\* before it, or the initial one
TrackedBefore(seen, x) ==
    IF x = 1 THEN <<InitialBeats(doc), InitialBeatType(doc)>>
    ELSE <<seen[x - 1][2], seen[x - 1][3]>>

Differing(seen) ==
    {x \in 1..Len(seen) : <<seen[x][2], seen[x][3]>> # TrackedBefore(seen, x)}

StatedUpTo(m, has(_)) ==
    \E mm \in 1..m : \E x \in 1..Len(doc[mm].attributes) : has(doc[mm].attributes[x])

(* C6: processing depends only on the measures read so far: while a measure *)
(* is processed, a value no measure up to it has stated is the default      *)
(* (divisions 2, fifths 0, 4/4), and the notes and rests of such measures   *)
(* have durations computed with divisions 2.                                *)
C6_PrefixOnly ==
    /\ pc = "elem" =>
          /\ ~StatedUpTo(mi, LAMBDA a : a.divisions # None) => divisions = 2
          /\ ~StatedUpTo(mi, LAMBDA a : a.fifths # None) => fifths = 0
          /\ ~StatedUpTo(mi, LAMBDA a : a.time # None) => (beats = 4 /\ beat_type = 4)
    /\ \A n \in 1..Len(notes) :
          ~StatedUpTo(notes[n].measure, LAMBDA a : a.divisions # None) =>
              2 * notes[n].duration = SrcElem(n).dur[1] * Scale

====
